---- MODULE Spec2Model ----
(***************************************************************************)
(* Model of the SonosVolumeDial action (the synchronization engine of the  *)
(* Stream Deck plugin): one singleton object whose handlers run to         *)
(* completion between awaits.  An atomic step of the model is one such     *)
(* run: a host event, a timer callback, or the continuation of an async    *)
(* function after the device call it awaited has settled.                  *)
(***************************************************************************)
EXTENDS Integers, Sequences, FiniteSets, TLC

VARIABLES
    shown,                \* host: the dial is displayed (between willAppear and willDisappear)
    settings,             \* host: the persisted settings, carried by every event payload
    feedback,             \* host: what the last setFeedback on the dial showed
    other,                \* host: a second dial of the same action type (shown, settings, feedback)
    devVolume, devMuted,  \* the speaker's own state
    sonos,                \* this.sonos
    lastKnownVolume,      \* this.lastKnownVolume
    isMuted,              \* this.isMuted
    pollInterval,         \* this.pollInterval is an {active: true} object
    pollTimeoutId,        \* this.pollTimeoutId is not null
    currentAction,        \* this.currentAction is not null
    currentOther,         \* this.currentAction is the second dial
    currentSettings,      \* this.currentSettings
    volumeChangeTimeout,  \* this.volumeChangeTimeout: "null", "pending" or "fired"
    isRotating,           \* this.isRotating
    pollTimers,           \* number of poll wakes waiting in the timer queue
    debounceTimers,       \* debounce callbacks waiting in the timer queue
    callbacks,            \* fired debounce callbacks suspended at a device call
    muteTasks,            \* background mute tasks suspended at setMuted
    polls,                \* pollWithDelay runs suspended at their two reads
    reads,                \* onWillAppear / onDidReceiveSettings runs suspended at their two reads
    out,                  \* what the last step did: its trigger, then its outbound calls in order
    burstExpect,          \* history: the cached volume before the burst, moved tick by tick
    burstMuted,           \* history: the pending burst's last tick found the cache muted, no toggle since
    events                \* number of host, user and speaker-side events so far

vars == <<shown, settings, feedback, other, currentOther, devVolume, devMuted, sonos, lastKnownVolume, isMuted,
          pollInterval, pollTimeoutId, currentAction, currentSettings,
          volumeChangeTimeout, isRotating, pollTimers, debounceTimers,
          callbacks, muteTasks, polls, reads, out, burstExpect, burstMuted, events>>

----------------------------------------------------------------------------
(* Bounds of the model *)

MaxInflight == 2          \* suspended async runs (and queued timers of one kind) at a time
MaxEvents == 3            \* host, user and speaker-side events in one run
Addrs == {"A", "B"}       \* speaker addresses the user may configure
Ticks == {-10, 10}         \* ev.payload.ticks of one rotation event
StepChoices == {5}        \* volumeStep values offered by the property inspector
DeviceVolumes == {0, 50, 100}   \* volumes another controller sets on the speaker
InitValues == {0}         \* persisted values the dial may start with
InitAddrs == {"", "A"}    \* persisted addresses the dial may start with ("": none)
OtherSettings == [speakerIp |-> "", value |-> 0, volumeStep |-> 5]
                          \* the second dial: no address entered yet

(* The wider inputs of the rotation arithmetic *)
AnyTicks == {-25, -1, 1, 25}            \* ev.payload.ticks: slow and fast spins, both ways
AnySteps == {1, 2, 5, 10}               \* the step sizes of the property inspector
EdgeVolumes == {0, 100}                 \* the ends of the range
MidValues == {50}                       \* persisted values inside the range

(* Program constants *)

MinVolume == 0
MaxVolume == 100
DefaultVolume == 50
DefaultStep == 5

NoIp == ""                \* speakerIp undefined (falsy)
Undef == -1               \* a settings field that is undefined
NoHandle == [addr |-> "null", id |-> 0]
NoFeedback == [v |-> Undef, m |-> FALSE]     \* the layout as the host draws it before any setFeedback
NoSettings == [speakerIp |-> "null", value |-> Undef, volumeStep |-> Undef]
EmptySettings == [speakerIp |-> NoIp, value |-> Undef, volumeStep |-> Undef]

----------------------------------------------------------------------------
(* The object's fields and the runtime's queues as one record, so that the *)
(* statements of a handler compose in program order.                       *)

St == [shown |-> shown, settings |-> settings, feedback |-> feedback, other |-> other,
       currentOther |-> currentOther, devVolume |-> devVolume, devMuted |-> devMuted,
       sonos |-> sonos, lastKnownVolume |-> lastKnownVolume, isMuted |-> isMuted,
       pollInterval |-> pollInterval, pollTimeoutId |-> pollTimeoutId,
       currentAction |-> currentAction, currentSettings |-> currentSettings,
       volumeChangeTimeout |-> volumeChangeTimeout, isRotating |-> isRotating,
       pollTimers |-> pollTimers, debounceTimers |-> debounceTimers,
       callbacks |-> callbacks, muteTasks |-> muteTasks, polls |-> polls, reads |-> reads,
       out |-> out, burstExpect |-> burstExpect, burstMuted |-> burstMuted,
       events |-> events]

Commit(s) ==
    /\ shown' = s.shown /\ settings' = s.settings
    /\ feedback' = s.feedback /\ other' = s.other /\ currentOther' = s.currentOther
    /\ devVolume' = s.devVolume /\ devMuted' = s.devMuted
    /\ sonos' = s.sonos /\ lastKnownVolume' = s.lastKnownVolume /\ isMuted' = s.isMuted
    /\ pollInterval' = s.pollInterval /\ pollTimeoutId' = s.pollTimeoutId
    /\ currentAction' = s.currentAction /\ currentSettings' = s.currentSettings
    /\ volumeChangeTimeout' = s.volumeChangeTimeout /\ isRotating' = s.isRotating
    /\ pollTimers' = s.pollTimers /\ debounceTimers' = s.debounceTimers
    /\ callbacks' = s.callbacks /\ muteTasks' = s.muteTasks
    /\ polls' = s.polls /\ reads' = s.reads
    /\ out' = s.out /\ burstExpect' = s.burstExpect /\ burstMuted' = s.burstMuted
    /\ events' = s.events

SeqRange(q) == {q[i] : i \in 1..Len(q)}
RemoveAt(q, i) == SubSeq(q, 1, i - 1) \o SubSeq(q, i + 1, Len(q))

Inflight(s) == Len(s.callbacks) + Len(s.muteTasks) + Len(s.polls) + Len(s.reads)

WithinBounds(s) ==
    /\ Inflight(s) <= MaxInflight
    /\ Len(s.debounceTimers) <= MaxInflight
    /\ s.pollTimers <= MaxInflight
    /\ s.events <= MaxEvents

(* Entries of out.  The first entry of a step names its trigger. *)
Ev(t, v, m, h, a) == [t |-> t, v |-> v, m |-> m, h |-> h, a |-> a]
Trigger(t, v, m) == Ev(t, v, m, NoHandle, "")
Emit(s, e) == [s EXCEPT !.out = Append(@, e)]
Begin(s, e) == [s EXCEPT !.out = <<e>>]
HostEvent(s, e) == [s EXCEPT !.out = <<e>>, !.events = @ + 1]

(* The same object serves both dials.  A handler works on the dial of its *)
(* event (ev.action and ev.payload.settings): Other exchanges the two     *)
(* dials, so that a handler run between two exchanges works on the second.*)
Other(s) ==
    [s EXCEPT !.shown = s.other.shown, !.settings = s.other.settings, !.feedback = s.other.feedback,
              !.other = [shown |-> s.shown, settings |-> s.settings, feedback |-> s.feedback],
              !.currentOther = IF s.currentAction THEN ~@ ELSE @]

Opacity(m) == IF m THEN 5 ELSE 10      \* tenths: 0.5 when muted, 1.0 otherwise

SetFeedback(s, v, m) ==
    Emit([s EXCEPT !.feedback = [v |-> v, m |-> Opacity(m) = 5]],
         Ev("setFeedback", v, Opacity(m) = 5, NoHandle, ""))
SetSettings(s, new) ==
    Emit([s EXCEPT !.settings = new], Ev("setSettings", new.value, FALSE, NoHandle, new.speakerIp))
ShowAlert(s) == Emit(s, Ev("showAlert", 0, FALSE, NoHandle, ""))
Call(s, t, v, m) == Emit(s, Ev(t, v, m, s.sonos, s.sonos.addr))

(* an exception that no catch block of the running function takes: its    *)
(* promise rejects and nothing handles the rejection                       *)
Uncaught(s) == Emit(s, Ev("uncaught", 0, FALSE, NoHandle, ""))

(* new Sonos(ip): a handle no suspended run and no field refers to. *)
HandleIds(s) ==
    {s.sonos.id}
      \cup {c.h.id : c \in SeqRange(s.callbacks)} \cup {c.h.id : c \in SeqRange(s.muteTasks)}
      \cup {c.h.id : c \in SeqRange(s.polls)} \cup {c.h.id : c \in SeqRange(s.reads)}
HandleIdSpace == 1..(2 * MaxInflight + 4)
NewSonos(s, ip) ==
    LET used == HandleIds(St) \cup HandleIds(s)
    IN  [addr |-> ip,
         id |-> CHOOSE i \in HandleIdSpace : i \notin used /\ \A j \in 1..(i - 1) : j \in used]

Clamp(v) == IF v < MinVolume THEN MinVolume ELSE IF v > MaxVolume THEN MaxVolume ELSE v
OrDefault(x, d) == IF x = Undef THEN d ELSE x
Spread(cs) == IF cs = NoSettings THEN EmptySettings ELSE cs

(* a clearTimeout that cancels nothing *)
ClearTimeout_Keeps(s) == s

ClearTimeout(s) ==        \* clearTimeout(this.volumeChangeTimeout)
    IF s.volumeChangeTimeout = "pending" /\ Len(s.debounceTimers) > 0
    THEN [s EXCEPT !.debounceTimers = SubSeq(@, 1, Len(@) - 1)]
    ELSE s
ClearPollTimeout(s) ==    \* clearTimeout(this.pollTimeoutId)
    IF s.pollTimeoutId /\ s.pollTimers > 0 THEN [s EXCEPT !.pollTimers = @ - 1] ELSE s

----------------------------------------------------------------------------
(* The poller *)

(* stopPolling that forgets the scheduled wake *)
StopPolling_KeepsTimer(s) ==
    [s EXCEPT !.pollInterval = FALSE, !.currentAction = FALSE, !.currentOther = FALSE,
              !.currentSettings = NoSettings]

StopPolling(s) ==
    LET a == [s EXCEPT !.pollInterval = FALSE]
        b == IF a.pollTimeoutId THEN [ClearPollTimeout(a) EXCEPT !.pollTimeoutId = FALSE] ELSE a
    IN  [b EXCEPT !.currentAction = FALSE, !.currentOther = FALSE, !.currentSettings = NoSettings]

(* pollWithDelay without lines 157-160 *)
PollWithDelay_NeverIdle(s) ==
    IF ~s.pollInterval THEN s
    ELSE IF ~s.currentAction \/ s.currentSettings = NoSettings THEN StopPolling(s)
    ELSE IF s.sonos = NoHandle /\ s.currentSettings.speakerIp = NoIp THEN s
    ELSE LET c == IF s.sonos = NoHandle
                  THEN [s EXCEPT !.sonos = NewSonos(s, s.currentSettings.speakerIp)]
                  ELSE s
             d == Call(Call(c, "getVolume", 0, FALSE), "getMuted", 0, FALSE)
         IN  [d EXCEPT !.polls = Append(@, [h |-> c.sonos, vol |-> c.devVolume, muted |-> c.devMuted])]

(* pollWithDelay up to its await *)
PollWithDelay(s) ==
    IF ~s.pollInterval THEN s
    ELSE IF ~s.currentAction \/ s.currentSettings = NoSettings THEN StopPolling(s)
    ELSE IF s.sonos = NoHandle /\ s.currentSettings.speakerIp = NoIp THEN StopPolling(s)
    ELSE LET c == IF s.sonos = NoHandle
                  THEN [s EXCEPT !.sonos = NewSonos(s, s.currentSettings.speakerIp)]
                  ELSE s
             d == Call(Call(c, "getVolume", 0, FALSE), "getMuted", 0, FALSE)
         IN  [d EXCEPT !.polls = Append(@, [h |-> c.sonos, vol |-> c.devVolume, muted |-> c.devMuted])]

(* pollWithDelay without its finally block *)
PollFinally_NoReschedule(s) == s

PollFinally(s) ==
    IF s.pollInterval
    THEN [ClearPollTimeout(s) EXCEPT !.pollTimers = @ + 1, !.pollTimeoutId = TRUE]
    ELSE s

StartPolling(s) ==
    IF s.pollInterval THEN s
    ELSE LET a == IF s.pollTimeoutId
                  THEN [ClearPollTimeout(s) EXCEPT !.pollTimeoutId = FALSE] ELSE s
             b == [a EXCEPT !.currentAction = TRUE, !.currentOther = FALSE]
         IN  IF b.currentSettings = NoSettings THEN b
             ELSE PollWithDelay([b EXCEPT !.pollInterval = TRUE])

(* the test of line 171 without its isRotating conjunct *)
PollApplies_NoGate(s, volume, muted) ==
    volume # s.lastKnownVolume \/ muted # s.isMuted

(* the test of line 171 *)
PollApplies(s, volume, muted) ==
    (volume # s.lastKnownVolume \/ muted # s.isMuted) /\ ~s.isRotating

(* pollWithDelay after its await: the reads returned volume and muted *)
PollResolved(s, volume, muted) ==
    IF PollApplies(s, volume, muted)
    THEN LET a == [s EXCEPT !.lastKnownVolume = volume, !.isMuted = muted]
         IN  IF ~a.currentAction
             THEN [a EXCEPT !.sonos = NoHandle]     \* TypeError on null, caught at line 189
             ELSE SetSettings(SetFeedback(a, volume, muted),
                              [Spread(a.currentSettings) EXCEPT !.value = volume])
    ELSE s

(* a catch block that also alerts the user *)
PollRejected_Alerts(s) == ShowAlert([s EXCEPT !.sonos = NoHandle])

(* lines 189-196 *)
PollRejected(s) == [s EXCEPT !.sonos = NoHandle]

----------------------------------------------------------------------------
(* onWillAppear *)

ReadRun(kind, h, s, ip, step, value) ==
    [kind |-> kind, h |-> h, vol |-> s.devVolume, muted |-> s.devMuted,
     speakerIp |-> ip, volumeStep |-> step, value |-> value]

OnWillAppearBody(s) ==
    LET p == s.settings
        value == OrDefault(p.value, DefaultVolume)
        volumeStep == OrDefault(p.volumeStep, DefaultStep)
        a == [s EXCEPT !.currentAction = TRUE, !.currentOther = FALSE, !.currentSettings = p]
        b == SetFeedback(a, value, a.isMuted)
    IN  IF p.speakerIp # NoIp
        THEN LET c == [b EXCEPT !.sonos = NewSonos(b, p.speakerIp)]
                 d == Call(Call(c, "getVolume", 0, FALSE), "getMuted", 0, FALSE)
             IN  [d EXCEPT !.reads = Append(@, ReadRun("appear", c.sonos, c, p.speakerIp, volumeStep, value))]
        ELSE SetSettings(b, [speakerIp |-> NoIp, volumeStep |-> volumeStep, value |-> value])

(* the run of onWillAppear (lines 283-302) or onDidReceiveSettings (574-591) after its reads *)
ReadResolvedBody(s, r, volume, muted) ==
    LET a == [s EXCEPT !.lastKnownVolume = volume, !.isMuted = muted]
        b == SetFeedback(a, volume, muted)
        c == SetSettings(b, [speakerIp |-> r.speakerIp, volumeStep |-> r.volumeStep, value |-> volume])
    IN  StartPolling(c)

ReadRejectedBody(s, r) ==
    LET a == ShowAlert([s EXCEPT !.sonos = NoHandle])
    IN  IF r.kind = "appear"
        THEN SetSettings(a, [speakerIp |-> r.speakerIp, volumeStep |-> r.volumeStep, value |-> r.value])
        ELSE a

----------------------------------------------------------------------------
(* onWillDisappear *)

(* onWillDisappear without lines 234-237 *)
OnWillDisappearBody_NoClear(s) == StopPolling(s)

OnWillDisappearBody(s) ==
    LET a == IF s.volumeChangeTimeout # "null"
             THEN [ClearTimeout(s) EXCEPT !.volumeChangeTimeout = "null"]
             ELSE s
    IN  StopPolling(a)

----------------------------------------------------------------------------
(* onDialRotate and its debounce callback *)

(* line 346 without Math.max and Math.min *)
NewValue_NoClamp(value, ticks, volumeStep) == value + ticks * volumeStep

NewValue(value, ticks, volumeStep) == Clamp(value + ticks * volumeStep)

(* onDialRotate without line 403 *)
OnDialRotateBody_StaysRotating(s, ticks) ==
    LET p == s.settings
        value == OrDefault(p.value, s.lastKnownVolume)
        volumeStep == OrDefault(p.volumeStep, DefaultStep)
        a == [s EXCEPT !.isRotating = TRUE, !.currentSettings = p]
        newValue == NewValue(value, ticks, volumeStep)
        b == SetFeedback(a, newValue, a.isMuted)
        c == SetSettings(b, [b.currentSettings EXCEPT !.value = newValue])
        d == [c EXCEPT !.lastKnownVolume = newValue]
        e == IF d.volumeChangeTimeout # "null"
             THEN [ClearTimeout(d) EXCEPT !.volumeChangeTimeout = "null"]
             ELSE d
    IN  IF p.speakerIp # NoIp
        THEN [e EXCEPT !.debounceTimers = Append(@, [newValue |-> newValue, speakerIp |-> p.speakerIp]),
                       !.volumeChangeTimeout = "pending"]
        ELSE ShowAlert(e)

(* a handler that leaves the cache to the debounce callback *)
OnDialRotateBody_CacheLater(s, ticks) ==
    LET p == s.settings
        value == OrDefault(p.value, s.lastKnownVolume)
        volumeStep == OrDefault(p.volumeStep, DefaultStep)
        a == [s EXCEPT !.isRotating = TRUE, !.currentSettings = p]
        newValue == NewValue(value, ticks, volumeStep)
        b == SetFeedback(a, newValue, a.isMuted)
        c == SetSettings(b, [b.currentSettings EXCEPT !.value = newValue])
        d == c
        e == IF d.volumeChangeTimeout # "null"
             THEN [ClearTimeout(d) EXCEPT !.volumeChangeTimeout = "null"]
             ELSE d
    IN  IF p.speakerIp # NoIp
        THEN [e EXCEPT !.debounceTimers = Append(@, [newValue |-> newValue, speakerIp |-> p.speakerIp]),
                       !.volumeChangeTimeout = "pending"]
        ELSE [ShowAlert(e) EXCEPT !.isRotating = FALSE]

OnDialRotateBody(s, ticks) ==
    LET p == s.settings
        value == OrDefault(p.value, s.lastKnownVolume)
        volumeStep == OrDefault(p.volumeStep, DefaultStep)
        a == [s EXCEPT !.isRotating = TRUE, !.currentSettings = p]
        newValue == NewValue(value, ticks, volumeStep)
        b == SetFeedback(a, newValue, a.isMuted)
        c == SetSettings(b, [b.currentSettings EXCEPT !.value = newValue])
        d == [c EXCEPT !.lastKnownVolume = newValue]
        e == IF d.volumeChangeTimeout # "null"
             THEN [ClearTimeout(d) EXCEPT !.volumeChangeTimeout = "null"]
             ELSE d
    IN  IF p.speakerIp # NoIp
        THEN [e EXCEPT !.debounceTimers = Append(@, [newValue |-> newValue, speakerIp |-> p.speakerIp]),
                       !.volumeChangeTimeout = "pending"]
        ELSE [ShowAlert(e) EXCEPT !.isRotating = FALSE]

(* the timer queue hands over the i-th waiting debounce callback *)
TakeTimer(s, i) ==
    [s EXCEPT !.debounceTimers = RemoveAt(@, i),
              !.volumeChangeTimeout =
                  IF @ = "pending" /\ i = Len(s.debounceTimers) THEN "fired" ELSE @]

CallbackRun(t, pc, h) == [newValue |-> t.newValue, speakerIp |-> t.speakerIp, pc |-> pc, h |-> h]

(* lines 371-385 up to the first await *)
DebounceCallback(s, t) ==
    LET a == IF s.sonos = NoHandle THEN [s EXCEPT !.sonos = NewSonos(s, t.speakerIp)] ELSE s
    IN  IF a.isMuted
        THEN [Call(a, "setMuted", 0, FALSE) EXCEPT !.callbacks = Append(@, CallbackRun(t, "setMuted", a.sonos))]
        ELSE [Call(a, "setVolume", t.newValue, FALSE) EXCEPT !.callbacks = Append(@, CallbackRun(t, "setVolume", a.sonos))]

(* the debounce callback without the catch block of lines 386-394 *)
CallbackCatch_Escapes(s) == Uncaught(s)

CallbackCatch(s) == ShowAlert([s EXCEPT !.sonos = NoHandle])

(* the finally block without line 397 *)
CallbackFinally_NoRestart(s) == [s EXCEPT !.isRotating = FALSE]

CallbackFinally(s) == StartPolling([s EXCEPT !.isRotating = FALSE])

(* line 381 onwards, after setMuted(false) resolved; s has the run removed *)
AfterUnmute(s, c) ==
    LET a == [s EXCEPT !.isMuted = FALSE]
    IN  IF a.sonos = NoHandle
        THEN CallbackFinally(CallbackCatch(a))      \* TypeError on null at line 385
        ELSE [Call(a, "setVolume", c.newValue, FALSE) EXCEPT !.callbacks = Append(@, CallbackRun(c, "setVolume", a.sonos))]

----------------------------------------------------------------------------
(* onDialUp, onTouchTap and their background task *)

(* a background task that skips its call while an earlier one is unsettled *)
MuteTask_Coalesce(s, speakerIp, newMutedState) ==
    IF s.muteTasks # <<>> THEN s
    ELSE LET a == IF s.sonos = NoHandle
                  THEN LET b == [s EXCEPT !.sonos = NewSonos(s, speakerIp)]
                       IN  IF ~b.pollInterval THEN StartPolling(b) ELSE b
                  ELSE s
         IN  [Call(a, "setMuted", 0, newMutedState)
                 EXCEPT !.muteTasks = Append(@, [h |-> a.sonos, m |-> newMutedState, kind |-> "dialUp"])]

(* the microtask of lines 441-455 up to its await *)
MuteTask(s, speakerIp, newMutedState) ==
    LET a == IF s.sonos = NoHandle
             THEN LET b == [s EXCEPT !.sonos = NewSonos(s, speakerIp)]
                  IN  IF ~b.pollInterval THEN StartPolling(b) ELSE b
             ELSE s
    IN  [Call(a, "setMuted", 0, newMutedState)
            EXCEPT !.muteTasks = Append(@, [h |-> a.sonos, m |-> newMutedState, kind |-> "dialUp"])]

(* the microtask of lines 505-519 up to its await *)
TouchTapTask(s, speakerIp, newMutedState) ==
    LET a == IF s.sonos = NoHandle
             THEN LET b == [s EXCEPT !.sonos = NewSonos(s, speakerIp)]
                  IN  IF ~b.pollInterval THEN StartPolling(b) ELSE b
             ELSE s
    IN  [Call(a, "setMuted", 0, newMutedState)
            EXCEPT !.muteTasks = Append(@, [h |-> a.sonos, m |-> newMutedState, kind |-> "touchTap"])]

OnDialUpBody(s) ==
    LET speakerIp == s.settings.speakerIp
        newMutedState == ~s.isMuted
        a == [s EXCEPT !.isMuted = newMutedState]
        b == SetFeedback(a, a.lastKnownVolume, newMutedState)
    IN  IF speakerIp # NoIp THEN MuteTask(b, speakerIp, newMutedState) ELSE ShowAlert(b)

(* a tap that always mutes *)
OnTouchTapBody_Mutes(s) ==
    LET speakerIp == s.settings.speakerIp
        newMutedState == TRUE
        a == [s EXCEPT !.isMuted = newMutedState]
        b == SetFeedback(a, a.lastKnownVolume, newMutedState)
    IN  IF speakerIp # NoIp THEN TouchTapTask(b, speakerIp, newMutedState) ELSE ShowAlert(b)

OnTouchTapBody(s) ==
    LET speakerIp == s.settings.speakerIp
        newMutedState == ~s.isMuted
        a == [s EXCEPT !.isMuted = newMutedState]
        b == SetFeedback(a, a.lastKnownVolume, newMutedState)
    IN  IF speakerIp # NoIp THEN TouchTapTask(b, speakerIp, newMutedState) ELSE ShowAlert(b)

(* a catch block that also stops the poller *)
MuteTaskCatch_StopsPolling(s) == StopPolling(ShowAlert([s EXCEPT !.sonos = NoHandle]))

(* a catch block that takes the optimistic flip back *)
MuteTaskCatch_Reverts(s) ==
    LET a == ShowAlert([s EXCEPT !.sonos = NoHandle, !.isMuted = ~@])
    IN  SetFeedback(a, a.lastKnownVolume, a.isMuted)

(* lines 456-464 *)
MuteTaskCatch(s) == ShowAlert([s EXCEPT !.sonos = NoHandle])

(* lines 520-528 *)
TouchTapTaskCatch(s) == ShowAlert([s EXCEPT !.sonos = NoHandle])

----------------------------------------------------------------------------
(* onDidReceiveSettings *)

(* line 558, evaluated after line 555 has stored the payload *)
SpeakerIpChanged(s, speakerIp) == speakerIp # s.currentSettings.speakerIp

OnDidReceiveSettingsBody(s) ==
    LET p == s.settings
        a == [s EXCEPT !.currentSettings = p]
    IN  IF SpeakerIpChanged(a, p.speakerIp)
        THEN LET b == StopPolling([a EXCEPT !.sonos = NoHandle])
             IN  IF p.speakerIp # NoIp
                 THEN LET c == [b EXCEPT !.sonos = NewSonos(b, p.speakerIp)]
                          d == Call(Call(c, "getVolume", 0, FALSE), "getMuted", 0, FALSE)
                      IN  [d EXCEPT !.reads = Append(@, ReadRun("settings", c.sonos, c, p.speakerIp, p.volumeStep, p.value))]
                 ELSE b
        ELSE a

----------------------------------------------------------------------------
(* Initial state: the plugin has registered the action; nothing is shown. *)

Init ==
    /\ shown = FALSE
    /\ settings \in [speakerIp : InitAddrs, value : {Undef} \cup InitValues, volumeStep : StepChoices]
    /\ feedback = NoFeedback
    /\ other = [shown |-> FALSE, settings |-> OtherSettings, feedback |-> NoFeedback]
    /\ currentOther = FALSE
    /\ devVolume = DefaultVolume /\ devMuted = FALSE
    /\ sonos = NoHandle
    /\ lastKnownVolume = DefaultVolume
    /\ isMuted = FALSE
    /\ pollInterval = FALSE /\ pollTimeoutId = FALSE
    /\ currentAction = FALSE /\ currentSettings = NoSettings
    /\ volumeChangeTimeout = "null"
    /\ isRotating = FALSE
    /\ pollTimers = 0 /\ debounceTimers = <<>>
    /\ callbacks = <<>> /\ muteTasks = <<>> /\ polls = <<>> /\ reads = <<>>
    /\ out = <<Trigger("init", 0, FALSE)>>
    /\ burstExpect = DefaultVolume
    /\ burstMuted = FALSE
    /\ events = 0

Step(s) == WithinBounds(s) /\ Commit(s)

(* what a read that was issued with the values then current may return *)
ReadValues(r) == {<<v, m>> : v \in {r.vol, devVolume}, m \in {r.muted, devMuted}}

----------------------------------------------------------------------------
(* Host events *)

OnWillAppear ==
    /\ ~shown
    /\ Step(OnWillAppearBody(HostEvent([St EXCEPT !.shown = TRUE], Trigger("willAppear", 0, isMuted))))

OnWillDisappear ==
    /\ shown
    /\ Step(OnWillDisappearBody(HostEvent([St EXCEPT !.shown = FALSE, !.burstMuted = FALSE],
                                      Ev("willDisappear", Len(debounceTimers), isMuted, sonos,
                                         IF pollInterval THEN "polling" ELSE ""))))

RotateBy(ticks) ==
    LET step == OrDefault(settings.volumeStep, DefaultStep)
        base == IF Len(debounceTimers) > 0 THEN burstExpect ELSE lastKnownVolume
    IN  Step(OnDialRotateBody(HostEvent([St EXCEPT !.burstExpect = Clamp(base + ticks * step),
                                              !.burstMuted = isMuted /\ settings.speakerIp # NoIp],
                                    Ev("dialRotate", ticks, isMuted, NoHandle,
                                       IF Len(debounceTimers) > 0 THEN "burst" ELSE "")), ticks))

OnDialRotate ==
    /\ shown
    /\ \E ticks \in Ticks : RotateBy(ticks)

(* a rotation of any speed *)
OnDialRotateAny ==
    /\ shown
    /\ \E ticks \in AnyTicks : RotateBy(ticks)

OnDialUp ==
    /\ shown
    /\ Step(OnDialUpBody(HostEvent([St EXCEPT !.burstMuted = FALSE],
                                   Trigger("dialUp", 0, isMuted))))

OnTouchTap ==
    /\ shown
    /\ Step(OnTouchTapBody(HostEvent([St EXCEPT !.burstMuted = FALSE],
                                     Trigger("touchTap", 0, isMuted))))

(* the user edits the address in the property inspector *)
OnDidReceiveSettings ==
    /\ shown
    /\ \E ip \in {NoIp} \cup Addrs :
         /\ ip # settings.speakerIp
         /\ Step(OnDidReceiveSettingsBody(
                   HostEvent([St EXCEPT !.settings = [settings EXCEPT !.speakerIp = ip]],
                         Ev("didReceiveSettings", 0, FALSE, sonos, settings.speakerIp))))

----------------------------------------------------------------------------
(* Timers *)

DebounceFire ==
    \E i \in 1..Len(debounceTimers) :
        Step(DebounceCallback(TakeTimer(Begin([St EXCEPT !.burstMuted = FALSE],
                                              Ev("debounceFire", debounceTimers[i].newValue, isMuted, NoHandle,
                                                 IF burstMuted THEN "muted" ELSE "")), i),
                              debounceTimers[i]))

PollTimerFire ==
    /\ pollTimers > 0
    /\ LET a == Begin([St EXCEPT !.pollTimers = @ - 1, !.pollTimeoutId = FALSE],
                      Ev("pollWake", 0, FALSE, sonos,
                         IF currentSettings.speakerIp \in Addrs THEN currentSettings.speakerIp ELSE ""))
       IN  Step(IF a.pollInterval THEN PollWithDelay(a) ELSE a)

----------------------------------------------------------------------------
(* Device calls settling *)

SetMutedResolved ==
    \E i \in 1..Len(callbacks) :
        /\ callbacks[i].pc = "setMuted"
        /\ Step(AfterUnmute(Begin([St EXCEPT !.callbacks = RemoveAt(@, i), !.devMuted = FALSE],
                                  Ev("setMutedResolved", 0, FALSE, callbacks[i].h, "")), callbacks[i]))

SetVolumeResolved ==
    \E i \in 1..Len(callbacks) :
        /\ callbacks[i].pc = "setVolume"
        /\ Step(CallbackFinally(Begin([St EXCEPT !.callbacks = RemoveAt(@, i), !.devVolume = callbacks[i].newValue],
                                      Ev("setVolumeResolved", callbacks[i].newValue, FALSE, callbacks[i].h, ""))))

CallbackRejected ==
    \E i \in 1..Len(callbacks) :
        Step(CallbackFinally(CallbackCatch(Begin([St EXCEPT !.callbacks = RemoveAt(@, i)],
                                                 Ev("writeRejected", 0, FALSE, callbacks[i].h, callbacks[i].pc)))))

MuteTaskResolved ==
    \E i \in 1..Len(muteTasks) :
        Step(Begin([St EXCEPT !.muteTasks = RemoveAt(@, i), !.devMuted = muteTasks[i].m],
                   Ev("muteResolved", 0, muteTasks[i].m, muteTasks[i].h, "")))

MuteTaskRejected ==
    \E i \in 1..Len(muteTasks) :
        LET s == Begin([St EXCEPT !.muteTasks = RemoveAt(@, i)],
                       Ev("writeRejected", 0, muteTasks[i].m, muteTasks[i].h, "toggle"))
        IN  Step(IF muteTasks[i].kind = "dialUp" THEN MuteTaskCatch(s) ELSE TouchTapTaskCatch(s))

PollResolve ==
    \E i \in 1..Len(polls) : \E r \in ReadValues(polls[i]) :
        LET s == Begin([St EXCEPT !.polls = RemoveAt(@, i)],
                       Ev("pollResolved", r[1], r[2], polls[i].h, IF isRotating THEN "rotating" ELSE ""))
        IN  Step(IF s.currentAction /\ s.currentOther      \* lines 177 and 187 address this.currentAction
                 THEN Other(PollFinally(PollResolved(Other(s), r[1], r[2])))
                 ELSE PollFinally(PollResolved(s, r[1], r[2])))

PollReject ==
    \E i \in 1..Len(polls) :
        Step(PollFinally(PollRejected(Begin([St EXCEPT !.polls = RemoveAt(@, i)],
                                            Ev("pollRejected", 0, FALSE, polls[i].h, "")))))

ReadResolve ==
    \E i \in 1..Len(reads) : \E r \in ReadValues(reads[i]) :
        Step(ReadResolvedBody(Begin([St EXCEPT !.reads = RemoveAt(@, i)],
                                    Ev("readResolved", r[1], r[2], reads[i].h, reads[i].kind)),
                              reads[i], r[1], r[2]))

ReadReject ==
    \E i \in 1..Len(reads) :
        Step(ReadRejectedBody(Begin([St EXCEPT !.reads = RemoveAt(@, i)],
                                    Ev("readRejected", 0, FALSE, reads[i].h, reads[i].kind)),
                              reads[i]))

(* somebody changes the speaker from another controller *)
ExternalChange ==
    \E v \in DeviceVolumes, m \in BOOLEAN :
        /\ <<v, m>> # <<devVolume, devMuted>>
        /\ Step(HostEvent([St EXCEPT !.devVolume = v, !.devMuted = m], Trigger("external", v, m)))

Next ==
    \/ OnWillAppear
    \/ OnWillDisappear
    \/ OnDialRotate
    \/ OnDialUp
    \/ OnTouchTap
    \/ OnDidReceiveSettings
    \/ DebounceFire
    \/ PollTimerFire
    \/ SetMutedResolved
    \/ SetVolumeResolved
    \/ CallbackRejected
    \/ MuteTaskResolved
    \/ MuteTaskRejected
    \/ PollResolve
    \/ PollReject
    \/ ReadResolve
    \/ ReadReject
    \/ ExternalChange

Spec == Init /\ [][Next]_vars

(* The same program when the runtime runs every due timer, every device    *)
(* call eventually settles, and a read that is tried again and again       *)
(* eventually succeeds.                                                    *)
LiveSpec ==
    /\ Init /\ [][Next]_vars
    /\ WF_vars(DebounceFire) /\ WF_vars(PollTimerFire)
    /\ WF_vars(SetMutedResolved \/ SetVolumeResolved \/ CallbackRejected)
    /\ WF_vars(MuteTaskResolved \/ MuteTaskRejected)
    /\ WF_vars(PollResolve \/ PollReject) /\ SF_vars(PollResolve)
    /\ WF_vars(ReadResolve \/ ReadReject) /\ SF_vars(ReadResolve)

(* The poller with the handlers that start it, stop it, change the address *)
(* or drop and construct handles, when the runtime runs every due timer    *)
(* and every device call eventually settles; a read may fail every time.   *)
PollNext ==
    \/ OnWillAppear
    \/ OnWillDisappear
    \/ OnDidReceiveSettings
    \/ PollTimerFire
    \/ PollResolve
    \/ PollReject
    \/ ReadResolve
    \/ ReadReject
    \/ ExternalChange

PollSpec ==
    /\ Init /\ [][PollNext]_vars
    /\ WF_vars(PollTimerFire)
    /\ WF_vars(PollResolve \/ PollReject)
    /\ WF_vars(ReadResolve \/ ReadReject)

----------------------------------------------------------------------------
(* Two dials of the action on the device.  The plugin registers one       *)
(* SonosVolumeDial object, and the host delivers the events of both dials *)
(* to it.  The second dial has no address entered.                        *)

OnWillAppearOther ==
    /\ ~other.shown
    /\ Step(Other(OnWillAppearBody(HostEvent([Other(St) EXCEPT !.shown = TRUE],
                                             Ev("willAppear", 0, isMuted, NoHandle, "other")))))

OnWillDisappearOther ==
    /\ other.shown
    /\ Step(Other(OnWillDisappearBody(HostEvent([Other(St) EXCEPT !.shown = FALSE],
                                                Ev("willDisappear", 0, isMuted, NoHandle, "other")))))

OnDialRotateOther ==
    /\ other.shown
    /\ \E ticks \in Ticks :
         Step(Other(OnDialRotateBody(HostEvent(Other(St), Ev("dialRotate", ticks, isMuted, NoHandle, "other")),
                                     ticks)))

OnDialUpOther ==
    /\ other.shown
    /\ Step(Other(OnDialUpBody(HostEvent(Other(St), Ev("dialUp", 0, isMuted, NoHandle, "other")))))

TwoNext ==
    \/ OnWillAppear
    \/ OnWillDisappear
    \/ OnDialRotate
    \/ OnDialUp
    \/ DebounceFire
    \/ SetVolumeResolved
    \/ MuteTaskResolved
    \/ PollTimerFire
    \/ PollResolve
    \/ ReadResolve
    \/ OnWillAppearOther
    \/ OnWillDisappearOther
    \/ OnDialRotateOther
    \/ OnDialUpOther

TwoSpec == Init /\ [][TwoNext]_vars

----------------------------------------------------------------------------
(* The rotation arithmetic with every tick count and step size.  The dial  *)
(* starts hidden after an earlier display: the cache holds the volume the  *)
(* last poll of that display stored (a poll that resolves after            *)
(* stopPolling stores it and fails at line 177 before persisting it), the  *)
(* settings hold the value persisted before.                               *)

RotateInit ==
    /\ shown = FALSE
    /\ settings \in [speakerIp : InitAddrs, value : {Undef} \cup MidValues,
                      volumeStep : {Undef} \cup AnySteps]
    /\ feedback = NoFeedback
    /\ other = [shown |-> FALSE, settings |-> OtherSettings, feedback |-> NoFeedback]
    /\ currentOther = FALSE
    /\ devVolume = DefaultVolume /\ devMuted = FALSE
    /\ sonos = NoHandle
    /\ lastKnownVolume \in EdgeVolumes
    /\ isMuted = FALSE
    /\ pollInterval = FALSE /\ pollTimeoutId = FALSE
    /\ currentAction = FALSE /\ currentSettings = NoSettings
    /\ volumeChangeTimeout = "null"
    /\ isRotating = FALSE
    /\ pollTimers = 0 /\ debounceTimers = <<>>
    /\ callbacks = <<>> /\ muteTasks = <<>> /\ polls = <<>> /\ reads = <<>>
    /\ out = <<Trigger("init", 0, FALSE)>>
    /\ burstExpect = lastKnownVolume
    /\ burstMuted = FALSE
    /\ events = 0

RotateNext ==
    \/ OnWillAppear
    \/ OnDialRotateAny
    \/ DebounceFire
    \/ SetVolumeResolved
    \/ ReadResolve
    \/ ReadReject
    \/ PollTimerFire
    \/ PollResolve

RotateSpec == RotateInit /\ [][RotateNext]_vars

----------------------------------------------------------------------------
(* Reading out *)

Calls(o, t) == SelectSeq(o, LAMBDA e : e.t = t)
DeviceCalls(o) == SelectSeq(o, LAMBDA e : e.t \in {"getVolume", "getMuted", "setVolume", "setMuted"})
IsToggle(o) == o[1].t \in {"dialUp", "touchTap"}
CacheWritten == lastKnownVolume' # lastKnownVolume \/ isMuted' # isMuted
WriteOutstanding == debounceTimers # <<>> \/ callbacks # <<>>

(* the step with which a fired debounce callback ends: its setVolume       *)
(* resolved, one of its calls was rejected, or line 385 found no handle    *)
CallbackCompletes ==
    \/ out'[1].t = "setVolumeResolved"
    \/ out'[1].t = "writeRejected" /\ out'[1].a # "toggle"
    \/ out'[1].t = "setMutedResolved" /\ sonos = NoHandle

----------------------------------------------------------------------------
(* Properties *)

(* C1: when the debounce timer of a burst fires with the cache unmuted,    *)
(* exactly one setVolume is issued and its argument is the cached volume   *)
(* from before the first tick of the burst, moved by step * ticks and      *)
(* clamped tick by tick.                                                   *)
C1_BurstIssuesOneSetVolume ==
    (out[1].t = "debounceFire" /\ ~out[1].m) =>
        LET c == Calls(out, "setVolume")
        IN  Len(c) = 1 /\ c[1].v = burstExpect

(* C2: a poll cycle never writes lastKnownVolume or isMuted while a        *)
(* debounce timer is pending or a fired debounce callback has not finished *)
(* its device calls.                                                       *)
C2_PollNeverWritesDuringWrite ==
    [][(out'[1].t = "pollResolved" /\ CacheWritten) => ~WriteOutstanding]_vars

(* C3: a poll cycle whose reads complete while isRotating is true leaves   *)
(* lastKnownVolume and isMuted as they were, pushes no feedback and        *)
(* persists no settings, whatever the speaker returned.                    *)
C3_PollDiscardedWhileRotating ==
    [][(out'[1].t = "pollResolved" /\ isRotating) =>
           /\ ~CacheWritten
           /\ settings' = settings
           /\ Calls(out', "setFeedback") = <<>>
           /\ Calls(out', "setSettings") = <<>>]_vars

(* C3 witness: a poll completed during a rotation with a volume that       *)
(* differs from the cached one.                                            *)
C3_Witness ==
    out[1].t = "pollResolved" /\ out[1].a = "rotating" /\ out[1].v # lastKnownVolume

(* C4: once the configured address is B, no poll cycle that read through a *)
(* handle for another address A writes lastKnownVolume or isMuted.         *)
C4_NoStalePollAfterAddressChange ==
    [][(out'[1].t = "pollResolved" /\ CacheWritten /\ settings.speakerIp \in Addrs) =>
           out'[1].h.addr = settings.speakerIp]_vars

(* C5: a settings event whose address differs from the previous one drops  *)
(* the old handle, stops the poller, creates a handle for the new address  *)
(* and issues one read of volume and mute through it.                      *)
C5_AddressChangeReconnects ==
    [][(out'[1].t = "didReceiveSettings" /\ settings'.speakerIp \in Addrs
          /\ settings'.speakerIp # settings.speakerIp) =>
           /\ sonos' # sonos
           /\ sonos'.addr = settings'.speakerIp
           /\ Len(reads') = Len(reads) + 1
           /\ reads'[Len(reads')].h = sonos'
           /\ Len(Calls(out', "getVolume")) = 1 /\ Len(Calls(out', "getMuted")) = 1]_vars

(* C6: while the dial is not shown no debounce timer is pending: the timer *)
(* that was pending when onWillDisappear ran is cancelled, so the calls it *)
(* would have issued are never issued.                                     *)
C6_DisappearCancelsDebounce ==
    ~shown => debounceTimers = <<>>

(* C6 witness: onWillDisappear ran while a debounce timer was pending.     *)
C6_Witness ==
    out[1].t = "willDisappear" /\ out[1].v > 0

(* C7: between onWillDisappear and the next onWillAppear no callback       *)
(* changes the cache, the handle or the poller, and none issues a device   *)
(* call.                                                                   *)
C7_NoCallbackAfterDisappear ==
    [][(~shown /\ ~shown') =>
           /\ UNCHANGED <<lastKnownVolume, isMuted, sonos, pollInterval, pollTimeoutId, pollTimers>>
           /\ DeviceCalls(out') = <<>>]_vars

(* C8: right after onWillDisappear the poller is idle, no debounce timer   *)
(* is pending and the connection handle is absent.                         *)
C8_DisappearReleasesAll ==
    out[1].t = "willDisappear" =>
        /\ ~pollInterval /\ ~pollTimeoutId /\ pollTimers = 0
        /\ debounceTimers = <<>>
        /\ sonos = NoHandle

(* C8 as amended: right after onWillDisappear the poller is idle and no    *)
(* debounce timer is pending; the connection handle is the one the engine  *)
(* had before.                                                             *)
C8_DisappearStopsTimers ==
    [][out'[1].t = "willDisappear" =>
           /\ ~pollInterval' /\ ~pollTimeoutId' /\ pollTimers' = 0
           /\ debounceTimers' = <<>>
           /\ sonos' = sonos]_vars

(* C8 witness: onWillDisappear ran with the poller active and a handle,    *)
(* and the handle is still there.                                          *)
C8_Witness ==
    out[1].t = "willDisappear" /\ out[1].a = "polling" /\ sonos # NoHandle

(* C9: after a setVolume or setMuted call fails the failed handle is gone  *)
(* (the field is null or already holds a newly constructed handle), and an *)
(* operation that finds no handle issues its calls through a newly         *)
(* constructed handle for the configured address.                          *)
C9_ReconnectAfterWriteFailure ==
    [][/\ out'[1].t = "writeRejected" =>
             /\ sonos' # out'[1].h
             /\ (sonos' = NoHandle \/ sonos'.id \notin HandleIds(St))
       /\ (sonos = NoHandle /\ DeviceCalls(out') # <<>>
             /\ out'[1].t \in {"debounceFire", "dialUp", "touchTap", "pollWake"}) =>
             \A i \in 1..Len(DeviceCalls(out')) :
                 /\ DeviceCalls(out')[i].h = sonos'
                 /\ sonos'.id \notin HandleIds(St)
                 /\ sonos'.addr = settings.speakerIp]_vars

(* C10: two mute toggles in immediate succession restore isMuted and issue *)
(* exactly two setMuted calls, the first with the flipped value and the    *)
(* second with the original one.                                           *)
C10_DoubleToggle ==
    [][(IsToggle(out) /\ IsToggle(out')) =>
           /\ isMuted' = out[1].m
           /\ Len(Calls(out, "setMuted")) = 1 /\ Calls(out, "setMuted")[1].m = ~out[1].m
           /\ Len(Calls(out', "setMuted")) = 1 /\ Calls(out', "setMuted")[1].m = out[1].m]_vars

(* C10 as amended: the same, when the settings carry a speaker address.    *)
C10_DoubleToggleConfigured ==
    [][(IsToggle(out) /\ IsToggle(out') /\ settings.speakerIp # NoIp) =>
           /\ isMuted' = out[1].m
           /\ Len(Calls(out, "setMuted")) = 1 /\ Calls(out, "setMuted")[1].m = ~out[1].m
           /\ Len(Calls(out', "setMuted")) = 1 /\ Calls(out', "setMuted")[1].m = out[1].m]_vars

(* C10 witness: the second of two successive toggles has run with an       *)
(* address configured, and both background tasks are at their setMuted.    *)
C10_Witness ==
    /\ IsToggle(out) /\ settings.speakerIp # NoIp
    /\ Len(muteTasks) = 2 /\ muteTasks[1].m # muteTasks[2].m

(* C11: when the timer of a tick that found the cache muted (address       *)
(* configured) fires, the callback issues setMuted(false) and no setVolume *)
(* yet; the setVolume of a callback that unmuted follows once              *)
(* setMuted(false) has resolved, carries the tick's value, and isMuted is  *)
(* false from then on, before that write settles.                          *)
C11_UnmuteBeforeVolume ==
    [][/\ (out'[1].t = "debounceFire" /\ out'[1].a = "muted") =>
             /\ Len(DeviceCalls(out')) = 1
             /\ DeviceCalls(out')[1].t = "setMuted" /\ ~DeviceCalls(out')[1].m
       /\ (out'[1].t = "setMutedResolved" /\ sonos # NoHandle) =>
             /\ ~isMuted'
             /\ Len(DeviceCalls(out')) = 1
             /\ DeviceCalls(out')[1].t = "setVolume"]_vars

(* C12: lastKnownVolume is always within 0..100, and so is the value of    *)
(* every setVolume call and of every setSettings call, whatever the tick   *)
(* counts and step sizes of the rotations.                                 *)
C12_VolumeInRange ==
    /\ lastKnownVolume \in MinVolume..MaxVolume
    /\ settings.value \in {Undef} \cup (MinVolume..MaxVolume)
    /\ \A i \in 1..Len(out) :
           out[i].t \in {"setVolume", "setSettings"} => out[i].v \in MinVolume..MaxVolume

(* C12 witness: a fast spin past the upper end was cut to 100 and the      *)
(* debounce callback sent that value.                                      *)
C12_Witness ==
    /\ out[1].t = "debounceFire" /\ out[1].v = MaxVolume
    /\ Calls(out, "setVolume") # <<>>
    /\ lastKnownVolume = MaxVolume /\ settings.volumeStep = 10

(* C13: a rotation with negative ticks while lastKnownVolume is 0 leaves   *)
(* it at 0, and one with positive ticks while it is 100 leaves it at 100.  *)
C13_RotateAtEndStays ==
    [][out'[1].t = "dialRotate" =>
           /\ (lastKnownVolume = MinVolume /\ out'[1].v < 0) => lastKnownVolume' = MinVolume
           /\ (lastKnownVolume = MaxVolume /\ out'[1].v > 0) => lastKnownVolume' = MaxVolume]_vars

(* C14: the poll cycles suspended at their reads and the scheduled poll    *)
(* wakes are together at most one.                                         *)
C14_OnePollLoop ==
    Len(polls) + pollTimers <= 1

(* C15: at most one debounce timer is pending; after a rotation tick the   *)
(* only pending timer is the one that tick started, so a timer that was    *)
(* pending before the tick has left the timer queue and never fires.       *)
C15_OneDebounceTimer ==
    /\ Len(debounceTimers) <= 1
    /\ (out[1].t = "dialRotate" /\ settings.speakerIp # NoIp) =>
           debounceTimers = <<[newValue |-> lastKnownVolume, speakerIp |-> settings.speakerIp]>>

(* C15 witness: a tick arrived while the timer of an earlier tick was      *)
(* pending.                                                                *)
C15_Witness ==
    out[1].t = "dialRotate" /\ out[1].a = "burst" /\ Len(debounceTimers) = 1

(* C16: if from some point on the dial stays shown with an address         *)
(* configured, then (user input and changes at the speaker having ended)   *)
(* from some point on lastKnownVolume and isMuted equal the speaker's      *)
(* volume and mute.                                                        *)
C16_EventuallyInSync ==
    <>[](shown /\ settings.speakerIp # NoIp) =>
        <>[](lastKnownVolume = devVolume /\ isMuted = devMuted)

(* C17: no step of a handler, a timer callback or a background task ends   *)
(* with an exception that none of its catch blocks took, whichever device  *)
(* calls fail and whatever another path did to this.sonos or               *)
(* this.currentAction while the run was suspended.                         *)
C17_NoUncaughtException ==
    \A i \in 1..Len(out) : out[i].t # "uncaught"

(* C17 witness: setMuted(false) of a debounce callback resolved after      *)
(* another path had set this.sonos to null; the TypeError of line 385 was  *)
(* taken by the catch block, which alerted.                                *)
C17_Witness ==
    /\ out[1].t = "setMutedResolved"
    /\ Calls(out, "showAlert") # <<>> /\ Calls(out, "setVolume") = <<>>
    /\ sonos = NoHandle /\ ~isRotating

(* C18: from any state, a press and a tap give the same isMuted, the same  *)
(* feedback, alerts and device calls in the same order, the same handle    *)
(* and poller and the same background task; and when the setMuted of the   *)
(* task fails, the two catch blocks leave the same state again.            *)
C18_PressTapEquivalent ==
    LET e == Trigger("toggle", 0, isMuted)
        Gesture(s) == [s EXCEPT !.muteTasks = [i \in 1..Len(@) |-> [h |-> @[i].h, m |-> @[i].m]]]
    IN  /\ Gesture(OnDialUpBody(Begin(St, e))) = Gesture(OnTouchTapBody(Begin(St, e)))
        /\ MuteTaskCatch(Begin(St, e)) = TouchTapTaskCatch(Begin(St, e))

(* C18 witness: a press and then a tap have run, each with its setMuted    *)
(* call still in flight.                                                   *)
C18_Witness ==
    /\ out[1].t = "touchTap" /\ Len(muteTasks) = 2
    /\ muteTasks[1].kind = "dialUp" /\ muteTasks[2].kind = "touchTap"

(* C19: a rotation tick moves lastKnownVolume to its value before the tick *)
(* plus ticks * volumeStep, clamped to 0..100.                             *)
C19_RotateFromCache ==
    [][out'[1].t = "dialRotate" =>
           lastKnownVolume' =
               Clamp(lastKnownVolume + out'[1].v * OrDefault(settings.volumeStep, DefaultStep))]_vars

(* C20: the setVolume call a firing debounce timer issues carries the      *)
(* value lastKnownVolume holds at that moment.                             *)
C20_FiresLatestVolume ==
    out[1].t = "debounceFire" =>
        \A i \in 1..Len(out) : out[i].t = "setVolume" => out[i].v = lastKnownVolume

(* C21: isRotating is true only while a debounce timer is pending or a     *)
(* fired debounce callback has not finished.                               *)
C21_RotatingOnlyDuringWrite ==
    isRotating => WriteOutstanding

(* C22: when a fired debounce callback ends, with or without a failure,    *)
(* isRotating is false and, if the dial is shown, the poller is active.    *)
C22_CompletionResumesPolling ==
    [][CallbackCompletes => (~isRotating' /\ (shown => pollInterval'))]_vars

(* C22 as amended: when a fired debounce callback ends, isRotating is      *)
(* false and, if the dial is shown and the settings the engine holds carry *)
(* an address, the poller is active: an idle poller is started and issues  *)
(* its reads, an active one keeps its cycle and its wake.                  *)
C22_CompletionResumesPollingConfigured ==
    [][CallbackCompletes =>
           /\ ~isRotating'
           /\ (shown /\ currentSettings.speakerIp \in Addrs) =>
                 /\ pollInterval'
                 /\ pollInterval => (polls' = polls /\ pollTimers' = pollTimers)
                 /\ ~pollInterval => (Len(polls') = Len(polls) + 1
                                        /\ Len(Calls(out', "getVolume")) = 1)]_vars

(* C22 witness: a debounce callback ended after a failed call while the    *)
(* poller was idle, and the poller was started.                            *)
C22_Witness ==
    /\ out[1].t = "writeRejected" /\ out[1].a = "setVolume"
    /\ shown /\ pollInterval /\ ~isRotating
    /\ Calls(out, "getVolume") # <<>>

(* C23: after a rotation tick with no address in the settings no device   *)
(* call has been issued and no debounce timer is pending, one alert was    *)
(* raised, lastKnownVolume holds the new volume, which the one feedback    *)
(* and the persisted settings show, and isRotating is false.               *)
C23_RotateWithoutAddress ==
    (out[1].t = "dialRotate" /\ settings.speakerIp = NoIp) =>
        /\ DeviceCalls(out) = <<>>
        /\ debounceTimers = <<>>
        /\ Len(Calls(out, "showAlert")) = 1
        /\ Len(Calls(out, "setFeedback")) = 1
        /\ Calls(out, "setFeedback")[1].v = lastKnownVolume
        /\ settings.value = lastKnownVolume
        /\ ~isRotating

(* C23 witness: a tick arrived with no address and moved the cache.        *)
C23_Witness ==
    /\ out[1].t = "dialRotate" /\ settings.speakerIp = NoIp
    /\ lastKnownVolume # DefaultVolume /\ Calls(out, "showAlert") # <<>>

C25_PollSurvivesFailures ==
    /\ [][/\ out'[1].t = "pollRejected" =>
                /\ sonos' = NoHandle
                /\ DeviceCalls(out') = <<>>
                /\ pollInterval => (pollTimers' = 1 /\ pollTimeoutId')
          /\ (out'[1].t = "pollWake" /\ sonos = NoHandle /\ pollInterval
                /\ currentSettings.speakerIp \in Addrs) =>
                /\ sonos'.id \notin HandleIds(St)
                /\ sonos'.addr = currentSettings.speakerIp
                /\ Len(polls') = Len(polls) + 1 /\ polls'[Len(polls')].h = sonos']_vars
    /\ []<>(~pollInterval \/ out[1].t = "pollWake")

(* C25 witness: after a failed poll read the wake found no handle and      *)
(* constructed one for the address of the settings.                        *)
C25_Witness ==
    /\ out[1].t = "pollWake" /\ out[1].h = NoHandle
    /\ Calls(out, "getVolume") # <<>> /\ Calls(out, "getVolume")[1].h = sonos
    /\ sonos.addr = currentSettings.speakerIp

(* C26: a poll wake that finds no handle and no address in the settings    *)
(* makes the poller idle: it issues no read and leaves no wake scheduled;  *)
(* and while the poller is idle before and after a step, that step issues  *)
(* no poll read and schedules no wake.                                     *)
C26_NoAddressStopsPoller ==
    [][/\ (out'[1].t = "pollWake" /\ sonos = NoHandle /\ settings.speakerIp = NoIp) =>
             /\ ~pollInterval' /\ ~pollTimeoutId' /\ pollTimers' = 0
             /\ polls' = polls
             /\ DeviceCalls(out') = <<>>
       /\ (~pollInterval /\ ~pollInterval') =>
             /\ pollTimers' = 0
             /\ Len(polls') <= Len(polls)]_vars

(* C26 witness: an active poller woke with no handle and no address and    *)
(* stopped.                                                                *)
C26_Witness ==
    /\ out[1].t = "pollWake" /\ out[1].h = NoHandle /\ out[1].a = ""
    /\ settings.speakerIp = NoIp
    /\ ~pollInterval /\ currentSettings = NoSettings

(* C27: when onWillAppear has run up to its await, lastKnownVolume is the  *)
(* persisted value (50 when the settings hold none), isMuted is false (the *)
(* settings hold no mute flag), and the first feedback shows that volume   *)
(* and that mute state.                                                    *)
C27_AppearLoadsPersisted ==
    out[1].t = "willAppear" =>
        /\ lastKnownVolume = OrDefault(settings.value, DefaultVolume)
        /\ ~isMuted
        /\ Calls(out, "setFeedback")[1].v = lastKnownVolume
        /\ Calls(out, "setFeedback")[1].m = isMuted

(* C28: when the read of onWillAppear fails, one alert is raised,          *)
(* this.sonos is null, lastKnownVolume and isMuted are as before and no    *)
(* feedback is pushed, and the settings are persisted once with the        *)
(* address, step and value they already held (defaults filled in).         *)
C28_FailedInitialRead ==
    [][(out'[1].t = "readRejected" /\ out'[1].a = "appear") =>
           /\ Len(Calls(out', "showAlert")) = 1
           /\ sonos' = NoHandle
           /\ UNCHANGED <<lastKnownVolume, isMuted>>
           /\ Calls(out', "setFeedback") = <<>>
           /\ Len(Calls(out', "setSettings")) = 1
           /\ settings' = [speakerIp |-> settings.speakerIp,
                           volumeStep |-> OrDefault(settings.volumeStep, DefaultStep),
                           value |-> OrDefault(settings.value, DefaultVolume)]]_vars

(* C29: the step in which the setMuted call of a mute toggle is rejected   *)
(* leaves isMuted and lastKnownVolume as they are, pushes no feedback and  *)
(* makes no device call (nothing is reverted or retried); and isMuted      *)
(* changes only in a toggle, in the result of a read, or when a rotation's *)
(* setMuted(false) has resolved, never in a step that handles a rejection. *)
C29_FailedToggleKeepsOptimistic ==
    [][/\ (out'[1].t = "writeRejected" /\ out'[1].a = "toggle") =>
              /\ UNCHANGED <<isMuted, lastKnownVolume>>
              /\ Calls(out', "setFeedback") = <<>>
              /\ DeviceCalls(out') = <<>>
       /\ isMuted' # isMuted =>
              out'[1].t \in {"dialUp", "touchTap", "pollResolved", "readResolved", "setMutedResolved"}]_vars

(* a rejected toggle has just been handled and the flipped value, which    *)
(* the speaker never took, is still the cached one                         *)
C29_Witness ==
    /\ out[1].t = "writeRejected" /\ out[1].a = "toggle"
    /\ isMuted = out[1].m
    /\ devMuted # isMuted

(* C30: a step that runs a poll cycle on its own (a wake of the poll       *)
(* timer, or the result or failure of a poll's read) raises no alert,      *)
(* whether the read failed, a handle was constructed or the address was    *)
(* missing; alerts are raised only in steps of the rotation, toggle,       *)
(* onWillAppear and onDidReceiveSettings paths, at most one per step, so a *)
(* poll cycle started inside such a step adds none.                        *)
C30_PollNeverAlerts ==
    [][/\ out'[1].t \in {"pollWake", "pollResolved", "pollRejected"} =>
              Calls(out', "showAlert") = <<>>
       /\ Calls(out', "showAlert") # <<>> =>
              /\ Len(Calls(out', "showAlert")) = 1
              /\ out'[1].t \in {"dialRotate", "debounceFire", "setMutedResolved",
                                "dialUp", "touchTap", "writeRejected",
                                "willAppear", "didReceiveSettings", "readRejected"}]_vars

(* a poll's read has just failed: the handle is gone and nothing was shown *)
C30_Witness ==
    /\ out[1].t = "pollRejected"
    /\ sonos = NoHandle
    /\ pollInterval
    /\ Calls(out, "showAlert") = <<>>

(* C31: at most one fired debounce callback is suspended in its            *)
(* setMuted/setVolume calls at any time.                                   *)
C31_OneWriteInFlight == Len(callbacks) <= 1

(* C32: the step of a rotation tick stores the new volume in               *)
(* lastKnownVolume and pushes exactly one feedback showing it, as the      *)
(* first thing the handler sends out, and issues no device call, whatever  *)
(* the handle, the address or the outcome of earlier writes.               *)
C32_TickIsOptimistic ==
    [][out'[1].t = "dialRotate" =>
           /\ lastKnownVolume' = NewValue(OrDefault(settings.value, lastKnownVolume), out'[1].v,
                                          OrDefault(settings.volumeStep, DefaultStep))
           /\ Len(Calls(out', "setFeedback")) = 1
           /\ out'[2].t = "setFeedback"
           /\ out'[2].v = lastKnownVolume'
           /\ DeviceCalls(out') = <<>>]_vars

(* a tick has moved the cache and the display with no handle and no        *)
(* address                                                                 *)
C32_Witness ==
    /\ out[1].t = "dialRotate"
    /\ sonos = NoHandle
    /\ settings.speakerIp = NoIp
    /\ out[2].t = "setFeedback" /\ out[2].v = lastKnownVolume
    /\ lastKnownVolume # DefaultVolume

(* C33: while the first dial is shown, a step that handles an event of the *)
(* second dial leaves the cache,                                           *)
(* the handle, isRotating, the debounce timer and the poller that serve    *)
(* the first dial as they were, and reaches neither its display nor its    *)
(* settings.                                                               *)
C33_DialsIndependent ==
    [][(shown /\ out'[1].a = "other") =>
           UNCHANGED <<lastKnownVolume, isMuted, sonos, isRotating,
                       volumeChangeTimeout, debounceTimers,
                       pollInterval, pollTimeoutId, pollTimers,
                       currentAction, currentOther, currentSettings,
                       shown, settings, feedback>>]_vars

(* C34: the continuation of onWillAppear (or of onDidReceiveSettings)      *)
(* after its reads leaves lastKnownVolume and isMuted alone when           *)
(* isRotating is true at that moment.                                      *)
C34_ReadGatedByRotation ==
    [][(out'[1].t = "readResolved" /\ isRotating) => UNCHANGED <<lastKnownVolume, isMuted>>]_vars

(* C35: while the setMuted call of a toggle is unsettled, the result of a  *)
(* poll cycle does not change isMuted.                                     *)
C35_PollKeepsToggle ==
    [][(out'[1].t = "pollResolved" /\ muteTasks # <<>>) => isMuted' = isMuted]_vars

(* C36: right after a rotation's setVolume has resolved and the cache      *)
(* holds the volume the speaker now has, a poll result carrying another    *)
(* volume (read before the write reached the speaker) does not replace     *)
(* lastKnownVolume.                                                        *)
C36_NoStalePollAfterWrite ==
    [][(/\ out[1].t = "setVolumeResolved"
        /\ lastKnownVolume = devVolume
        /\ out'[1].t = "pollResolved"
        /\ out'[1].v # devVolume) => lastKnownVolume' = lastKnownVolume]_vars

(* C37: while the dial is shown with no debounce timer waiting and no      *)
(* device call unsettled, the last feedback pushed to it shows             *)
(* lastKnownVolume and isMuted.                                            *)
Quiescent ==
    /\ debounceTimers = <<>>
    /\ callbacks = <<>> /\ muteTasks = <<>> /\ polls = <<>> /\ reads = <<>>

C37_FeedbackShowsCache ==
    (shown /\ Quiescent /\ feedback # NoFeedback) =>
        /\ feedback.v = lastKnownVolume
        /\ feedback.m = isMuted

(* C38: every getVolume, getMuted, setVolume and setMuted of a step goes   *)
(* through a handle that was constructed for the address the settings      *)
(* hold when the step ends.                                                *)
C38_CallsUseConfiguredAddress ==
    \A i \in 1..Len(DeviceCalls(out)) : DeviceCalls(out)[i].a = settings.speakerIp

(* C39: whenever the dial is shown and its settings hold an address, the   *)
(* poller is active at some later moment, or the dial has been hidden or   *)
(* the address removed by then.                                            *)
C39_PollerEventuallyActive ==
    (shown /\ settings.speakerIp \in Addrs) ~>
        (pollInterval \/ ~shown \/ settings.speakerIp \notin Addrs)

====
